---- MODULE Spec2Model ----
(***************************************************************************)
(* Verification model of the derived-value computation subsystem:          *)
(*   - DataItemProcessor (src/model/DataItemProcessor.py): dirty-flag      *)
(*     gated, single-flight asynchronous cache of a derived value;         *)
(*   - HistogramThread (src/HistogramPanel.py): pending-slot hand-off of a *)
(*     reference-counted data item to a throttled worker loop.             *)
(* The two components share no state; each has its own next-state relation *)
(* and specification over the same variables: SpecP and SpecC for the      *)
(* DataItemProcessor (without and with a close() call), SpecH for the      *)
(* HistogramThread, SpecL for HistogramPanel.close() racing with           *)
(* notifications, SpecU for either component beside the other at rest.     *)
(***************************************************************************)
EXTENDS Integers, Sequences, FiniteSets, TLC

\* ------------------------------------------------------------------ bounds
\* number of get_data calls that can be under way at the same time
NumCallers == 2
\* total number of get_data calls that are started in one behaviour
MaxCalls == 3

\* Values (raw data, calculated data, cached values) are tuples: Python's
\* None is the empty tuple, a piece of raw data is <<"a">>.
NoneVal == <<>>

\* what data_outputs[0].data can be: None, or some data
RawVals == {NoneVal, <<"a">>}

\* --------------------------------------------------------------- variables
VARIABLES
    \* DataItemProcessor fields
    in_progress,          \* self.__in_progress
    finish_event,         \* self.__finish_event (TRUE = set)
    cached_value,         \* self.__cached_value
    cached_value_dirty,   \* self.__cached_value_dirty: "unset" (None), "dirty" (True), "clean" (False)
    \* the owning item's cache slot and the upstream data item
    item_dirty,           \* item.is_cached_value_dirty(cache_property_name)
    item_value,           \* item's cached value for the slot (NoneVal = no entry)
    raw,                  \* data_item.data_outputs[0].data
    closed,               \* data_item.closed
    num_outputs,          \* len(data_item.data_outputs)
    \* threads
    at_schedule,          \* get_data calls that stand before line 85, counted by
                          \* whether they were given a completion_fn
    at_return,            \* get_data calls that stand before line 90
    result,               \* value returned by the last get_data call that returned
    jobs,                 \* tasks handed to item.add_shared_task that have not ended,
                          \* in scheduling order
    close_pc,             \* close(): "open" (not called), "waiting", "returned"
    \* observation (history) variables
    calls,                \* get_data calls started
    calc_calls,           \* invocations of get_calculated_data before the first store
    stored,               \* the store at lines 70-72 has been executed
    late_callback,        \* a completion_fn ran after close() had returned
    quiet_close,          \* close() was called while no get_data call was under way
    raised,               \* a task ended by raising: "no", "calc" (in
                          \* get_calculated_data), "callback" (in completion_fn)
    mutex                 \* self.__mutex: "free", or who holds it between two steps

pvars == <<in_progress, finish_event, cached_value, cached_value_dirty,
           item_dirty, item_value, raw, closed, num_outputs,
           at_schedule, at_return, result, jobs, close_pc,
           calls, calc_calls, stored, late_callback, quiet_close, raised, mutex>>

\* HistogramThread fields and the threads around it
VARIABLES
    data_item,            \* HistogramThread.__data_item, the pending slot
    refs,                 \* per subject: add_ref calls minus remove_ref calls so far
    adding,               \* per subject: handle_data calls that have stored the subject
                          \* (line 46) and not yet reached add_ref (line 48)
    thread_break,         \* ProcessingThread: the loop has been told to terminate
    w_pc,                 \* worker loop: "wait", "process", "release", "ended"
    w_data,               \* the subject the worker took with grab_data
    w_raised,             \* process_data raised in the loop's latest pass
    hclose_pc,            \* HistogramThread.close(): "open", "joining", "joined", "done", "again"
    h_mutex,              \* HistogramThread.__mutex: "free", or who holds it between
                          \* two steps
    elapsed,              \* ProcessingThread: ticks since the loop's last pass ended
    panel_thread,         \* HistogramPanel.__histogram_thread is set (not None)
    panel_data_item,      \* HistogramPanel.__data_item, set by process_data
    histogram_layer,      \* the subject whose histogram is drawn on the histogram
                          \* layer (NoSubject: nothing is drawn)
    histogram_dirty,      \* HistogramPanel.__histogram_dirty
    \* observation (history) variables
    notifies,             \* handle_data calls made
    stores,               \* per subject: times handle_data stored it in the slot
    replaced,             \* per subject: times handle_data released it when replacing it
    processed,            \* per subject: times process_data was invoked on it
    since_process         \* ticks since process_data was last invoked

hvars == <<data_item, refs, adding, thread_break, w_pc, w_data, w_raised,
           hclose_pc, panel_data_item, notifies, stores, replaced, processed,
           h_mutex, elapsed, panel_thread, histogram_layer, histogram_dirty,
           since_process>>

\* --- HistogramPanel drawing (HistogramPanel.py lines 113-262), seen at the
\* grain of the attribute reads and writes of its two threads
VARIABLES
    d_item,               \* HistogramPanel.__data_item
    d_dirty,              \* HistogramPanel.__histogram_dirty
    d_adorn_dirty,        \* HistogramPanel.__adornments_dirty
    d_limits,             \* HistogramPanel.__display_limits
    pressed,              \* HistogramPanel.pressed
    update_lock,          \* holder of HistogramPanel.__update_lock, or "free"
    d_layer,              \* the subject whose histogram the histogram layer shows
    d_adorn_layer,        \* the display limits the adornments layer shows
    t_pc,                 \* per thread: its position in the handler it runs
    t_local,              \* per thread: histogram_data read at line 154
    wk_arg,               \* the argument of the worker's _set_data_item call
    wk_pressed,           \* the value of pressed the worker read at line 258
    ui_limits,            \* the argument of the UI thread's __set_display_limits call
    d_sets,               \* _set_data_item calls made
    d_events              \* UI events handled

dvars == <<d_item, d_dirty, d_adorn_dirty, d_limits, pressed, update_lock,
           d_layer, d_adorn_layer, t_pc, t_local, wk_arg, wk_pressed,
           ui_limits, d_sets, d_events>>

\* --- DataListController and DataGridController: the needs-update signal
\* (DataPanel.py lines 249-311 and 457-494), per controller
VARIABLES
    n_changed,            \* __changed_display_items
    n_queued,             \* a task is queued under the controller's key
    n_closed,             \* close() was called
    n_running,            \* the controller whose task the UI thread runs, or "none"
    n_local,              \* changed_display_items, the local of the running task
    n_pc,                 \* the running task's position: "take", "update"
    n_signals,            \* needs-update signals received
    n_runs,               \* runs of __update_display_items that have ended
    n_updates,            \* calls of the canvas item's update()
    n_fresh               \* update() was called after the last signal

nvars == <<n_changed, n_queued, n_closed, n_running, n_local, n_pc,
           n_signals, n_runs, n_updates, n_fresh>>

\* --- DataBrowserController (DataPanel.py lines 556-622)
VARIABLES
    b_blocked,            \* __blocked
    b_data_group,         \* __data_group
    b_data_item,          \* __data_item
    b_filter_id,          \* __filter_id
    b_pc,                 \* position of the outer set_data_browser_selection call
    b_args,               \* its arguments <<data_group, data_item, filter_id>>
    b_trigger,            \* its local trigger
    b_fired,              \* the events the current or last outer call fired
    b_before,             \* the stored selection when that call began
    b_nested,             \* calls made while that call was executing
    b_raised,             \* that call ended with an exception
    b_repeat              \* that call repeats the arguments of the call before it,
                          \* which returned normally

bvars == <<b_blocked, b_data_group, b_data_item, b_filter_id, b_pc, b_args,
           b_trigger, b_fired, b_before, b_nested, b_raised, b_repeat>>

\* --- DataGroupModelController (DataPanel.py lines 724-852)
VARIABLES
    g_parent,             \* per data group: the container that holds it, or "none"
    g_mapping,            \* the data groups that are keys of __mapping
    g_listeners           \* per listener dictionary: the data groups it has keys for

gvars == <<g_parent, g_mapping, g_listeners>>

xvars == <<dvars, nvars, bvars, gvars>>

vars == <<pvars, hvars, xvars>>

\* ------------------------------------------------- DataItemProcessor model

\* get_default_data(): the base class returns None
get_default_data == NoneVal

\* get_calculated_data(ui, data): supplied by the subclass; the value it
\* returns for raw data d when it returns one
get_calculated_data(d) == <<"calc">> \o d

\* outcomes of one get_calculated_data invocation
CalcOutcomes == {"value", "none", "raise"}

\* the staleness test of get_data, line 53
IsStale ==
    (cached_value_dirty # "unset" /\ cached_value_dirty = "dirty") \/ item_dirty

\* the conditions of lines 53-58 under which get_data goes on to the
\* test-and-set block of lines 85-89
WantsSchedule == IsStale /\ ~closed /\ num_outputs = 1

\* __init__, lines 8-16, on an item whose cache slot may or may not be dirty
InitP ==
    /\ in_progress = FALSE
    /\ finish_event = TRUE
    /\ cached_value = NoneVal
    /\ cached_value_dirty = "unset"
    /\ item_dirty \in BOOLEAN
    /\ item_value = NoneVal
    /\ raw \in RawVals
    /\ closed = FALSE
    /\ num_outputs \in {1, 2}
    /\ at_schedule = [fn \in BOOLEAN |-> 0]
    /\ at_return = 0
    /\ result = NoneVal
    /\ jobs = <<>>
    /\ close_pc = "open"
    /\ calls = 0
    /\ calc_calls = 0
    /\ stored = FALSE
    /\ late_callback = FALSE
    /\ quiet_close = FALSE
    /\ raised = "no"
    /\ mutex = "free"

\* a set_cached_value_dirty that flips the local flag instead of setting it
set_cached_value_dirty_Flip ==
    /\ item_dirty' = TRUE
    /\ cached_value_dirty' = IF cached_value_dirty = "dirty" THEN "clean" ELSE "dirty"
    /\ jobs' = [j \in DOMAIN jobs |->
                  IF jobs[j].pc \in {"loaded", "calculated"}
                    THEN [jobs[j] EXCEPT !.sig = TRUE] ELSE jobs[j]]
    /\ UNCHANGED <<in_progress, finish_event, cached_value, item_value, raw,
                   closed, num_outputs, at_schedule, at_return, result, close_pc,
                   calls, calc_calls, stored, late_callback>>
    /\ UNCHANGED <<quiet_close, raised, mutex, hvars, xvars>>

\* set_cached_value_dirty(), lines 37-39 (also data_item_changed, lines 25-27)
set_cached_value_dirty ==
    /\ item_dirty' = TRUE
    /\ cached_value_dirty' = "dirty"
    /\ jobs' = [j \in DOMAIN jobs |->
                  IF jobs[j].pc \in {"loaded", "calculated"}
                    THEN [jobs[j] EXCEPT !.sig = TRUE] ELSE jobs[j]]
    /\ UNCHANGED <<in_progress, finish_event, cached_value, item_value, raw,
                   closed, num_outputs, at_schedule, at_return, result, close_pc,
                   calls, calc_calls, stored, late_callback>>
    /\ UNCHANGED <<quiet_close, raised, mutex, hvars, xvars>>

\* the upstream data item gets new raw data (or loses it)
SetRaw(v) ==
    /\ raw # v
    /\ raw' = v
    /\ UNCHANGED <<in_progress, finish_event, cached_value, cached_value_dirty,
                   item_dirty, item_value, closed, num_outputs, at_schedule, at_return, result,
                   jobs, close_pc, calls, calc_calls, stored, late_callback>>
    /\ UNCHANGED <<quiet_close, raised, mutex, hvars, xvars>>

\* the upstream data item is closed
CloseDataItem ==
    /\ ~closed
    /\ closed' = TRUE
    /\ UNCHANGED <<in_progress, finish_event, cached_value, cached_value_dirty,
                   item_dirty, item_value, raw, num_outputs, at_schedule, at_return, result,
                   jobs, close_pc, calls, calc_calls, stored, late_callback>>
    /\ UNCHANGED <<quiet_close, raised, mutex, hvars, xvars>>

\* the get_data calls under way
ActiveCalls == at_schedule[TRUE] + at_schedule[FALSE] + at_return

\* get_data, lines 53-58: the staleness test and the reads of the data item.
\* A call is started only while close() has not been called.
GetDataCheck(fn) ==
    /\ ActiveCalls < NumCallers
    /\ close_pc = "open"
    /\ calls < MaxCalls
    /\ calls' = calls + 1
    /\ IF WantsSchedule
         THEN /\ at_schedule' = [at_schedule EXCEPT ![fn] = @ + 1]
              /\ at_return' = at_return
         ELSE /\ at_return' = at_return + 1
              /\ at_schedule' = at_schedule
    /\ UNCHANGED <<in_progress, finish_event, cached_value, cached_value_dirty,
                   item_dirty, item_value, raw, closed, num_outputs, result,
                   jobs, close_pc, calc_calls, stored, late_callback>>
    /\ UNCHANGED <<quiet_close, raised, mutex, hvars, xvars>>

\* a task as add_shared_task receives it: the closure load_data_on_thread
\* (pc: its position; cb: its completion_fn; data, calc: its locals data and
\* calculated_data; called: it has invoked get_calculated_data; sig: a dirty
\* signal arrived after it read its data and before it stored its result)
NewJob(fn) == [pc |-> "queued", cb |-> fn, data |-> NoneVal, calc |-> NoneVal,
               called |-> FALSE, sig |-> FALSE]

\* the task list without task j: a task that has returned or raised is gone
Ended(j) == SubSeq(jobs, 1, j - 1) \o SubSeq(jobs, j + 1, Len(jobs))

\* lines 85-89 without the test of the in-progress flag: every stale get_data
\* call schedules a task
GetDataSchedule_NoTest(fn) ==
    /\ at_schedule[fn] > 0
    /\ mutex = "free"
    /\ in_progress' = TRUE
    /\ finish_event' = FALSE
    /\ jobs' = Append(jobs, NewJob(fn))
    /\ at_schedule' = [at_schedule EXCEPT ![fn] = @ - 1]
    /\ at_return' = at_return + 1
    /\ UNCHANGED <<cached_value, cached_value_dirty, item_dirty, item_value,
                   raw, closed, num_outputs, result, close_pc,
                   calls, calc_calls, stored, late_callback>>
    /\ UNCHANGED <<quiet_close, raised, mutex, hvars, xvars>>

\* get_data, lines 85-89: test-and-set of the in-progress flag under the
\* mutex, which the step takes and gives back
GetDataSchedule(fn) ==
    /\ at_schedule[fn] > 0
    /\ mutex = "free"
    /\ IF ~in_progress
         THEN /\ in_progress' = TRUE
              /\ finish_event' = FALSE
              /\ jobs' = Append(jobs, NewJob(fn))
         ELSE UNCHANGED <<in_progress, finish_event, jobs>>
    /\ at_schedule' = [at_schedule EXCEPT ![fn] = @ - 1]
    /\ at_return' = at_return + 1
    /\ UNCHANGED <<cached_value, cached_value_dirty, item_dirty, item_value,
                   raw, closed, num_outputs, result, close_pc,
                   calls, calc_calls, stored, late_callback>>
    /\ UNCHANGED <<quiet_close, raised, mutex, hvars, xvars>>

\* a get_data that hands out the default while a computation is under way
GetDataValue_Wait ==
    IF in_progress THEN get_default_data
    ELSE IF cached_value # NoneVal THEN cached_value ELSE get_default_data

\* get_data, lines 90-93: the value returned
GetDataValue == IF cached_value # NoneVal THEN cached_value ELSE get_default_data

GetDataReturn ==
    /\ at_return > 0
    /\ result' = GetDataValue
    /\ at_return' = at_return - 1
    /\ UNCHANGED <<in_progress, finish_event, cached_value, cached_value_dirty,
                   item_dirty, item_value, raw, closed, num_outputs, at_schedule, jobs,
                   close_pc, calls, calc_calls, stored, late_callback>>
    /\ UNCHANGED <<quiet_close, raised, mutex, hvars, xvars>>

\* load_data_on_thread, lines 60-61: the dispatcher runs the task; it reads
\* the raw data
JobLoad(j) ==
    /\ jobs[j].pc = "queued"
    /\ jobs' = [jobs EXCEPT ![j].pc = "loaded", ![j].data = raw]
    /\ UNCHANGED <<in_progress, finish_event, cached_value, cached_value_dirty,
                   item_dirty, item_value, raw, closed, num_outputs, at_schedule, at_return,
                   result, close_pc, calls, calc_calls, stored, late_callback>>
    /\ UNCHANGED <<quiet_close, raised, mutex, hvars, xvars>>

\* a job that calls get_calculated_data whether or not there is data
JobCalc_Always(j, outcome) ==
    /\ jobs[j].pc = "loaded"
    /\ calc_calls' = IF stored THEN calc_calls ELSE calc_calls + 1
    /\ jobs' = [jobs EXCEPT
          ![j].pc = IF outcome = "raise" THEN "raising" ELSE "calculated",
          ![j].called = TRUE,
          ![j].sig = IF outcome = "raise" THEN FALSE ELSE jobs[j].sig,
          ![j].calc = IF outcome = "value"
                        THEN get_calculated_data(jobs[j].data)
                        ELSE NoneVal]
    /\ UNCHANGED <<in_progress, finish_event, cached_value, cached_value_dirty,
                   item_dirty, item_value, raw, closed, num_outputs, at_schedule, at_return,
                   result, close_pc, calls, stored, late_callback>>
    /\ UNCHANGED <<quiet_close, raised, mutex, hvars, xvars>>

\* lines 62-64 and 73-74: get_calculated_data is called when there is data
JobCalc(j, outcome) ==
    /\ jobs[j].pc = "loaded"
    /\ IF jobs[j].data # NoneVal
         THEN /\ calc_calls' = IF stored THEN calc_calls ELSE calc_calls + 1
              /\ jobs' = [jobs EXCEPT
                    ![j].pc = IF outcome = "raise" THEN "raising" ELSE "calculated",
                    ![j].called = TRUE,
                    ![j].sig = IF outcome = "raise" THEN FALSE ELSE jobs[j].sig,
                    ![j].calc = IF outcome = "value"
                                  THEN get_calculated_data(jobs[j].data)
                                  ELSE NoneVal]
         ELSE /\ outcome = "none"
              /\ calc_calls' = calc_calls
              /\ jobs' = [jobs EXCEPT ![j].pc = "stored", ![j].calc = NoneVal,
                                      ![j].sig = FALSE]
    /\ UNCHANGED <<in_progress, finish_event, cached_value, cached_value_dirty,
                   item_dirty, item_value, raw, closed, num_outputs, at_schedule, at_return,
                   result, close_pc, calls, stored, late_callback>>
    /\ UNCHANGED <<quiet_close, raised, mutex, hvars, xvars>>

\* an exception handler that also drops the cached value
JobRaise_Reset(j) ==
    /\ jobs[j].pc = "raising"
    /\ finish_event' = TRUE
    /\ jobs' = Ended(j)
    /\ raised' = "calc"
    /\ item_value' = NoneVal
    /\ item_dirty' = TRUE
    /\ cached_value' = NoneVal
    /\ cached_value_dirty' = "unset"
    /\ UNCHANGED <<in_progress, raw, closed, num_outputs, at_schedule, at_return,
                   result, close_pc, calls, calc_calls, stored, late_callback>>
    /\ UNCHANGED <<quiet_close, mutex, hvars, xvars>>

\* lines 65-69: the exception handler of the job
JobRaise(j) ==
    /\ jobs[j].pc = "raising"
    /\ finish_event' = TRUE
    /\ jobs' = Ended(j)
    /\ raised' = "calc"
    /\ UNCHANGED <<in_progress, cached_value, cached_value_dirty,
                   item_dirty, item_value, raw, closed, num_outputs, at_schedule, at_return,
                   result, close_pc, calls, calc_calls, stored, late_callback>>
    /\ UNCHANGED <<quiet_close, mutex, hvars, xvars>>

\* lines 70-72: the result is stored in the item's cache and in the shadow
JobStore(j) ==
    /\ jobs[j].pc = "calculated"
    /\ item_value' = jobs[j].calc
    /\ item_dirty' = FALSE
    /\ cached_value' = jobs[j].calc
    /\ cached_value_dirty' = "clean"
    /\ stored' = TRUE
    /\ jobs' = [jobs EXCEPT ![j].pc = "stored", ![j].sig = FALSE]
    /\ UNCHANGED <<in_progress, finish_event, raw, closed, num_outputs, at_schedule, at_return,
                   result, close_pc, calls, calc_calls, late_callback>>
    /\ UNCHANGED <<quiet_close, raised, mutex, hvars, xvars>>

\* a job that clears the in-progress flag before it calls the completion
\* callback
JobReset_ClearFlag(j) ==
    /\ jobs[j].pc = "stored"
    /\ IF jobs[j].calc = NoneVal
         THEN /\ item_value' = NoneVal
              /\ item_dirty' = TRUE
              /\ cached_value' = NoneVal
              /\ cached_value_dirty' = "unset"
         ELSE UNCHANGED <<item_value, item_dirty, cached_value, cached_value_dirty>>
    /\ in_progress' = FALSE
    /\ jobs' = [jobs EXCEPT ![j].pc = "callback",
                            ![j].calc = IF jobs[j].calc = NoneVal
                                          THEN get_default_data ELSE jobs[j].calc]
    /\ UNCHANGED <<finish_event, raw, closed, num_outputs, at_schedule, at_return,
                   result, close_pc, calls, calc_calls, stored, late_callback>>
    /\ UNCHANGED <<quiet_close, raised, mutex, hvars, xvars>>

\* a None result that leaves the cache as lines 70-72 left it
JobReset_NoRemove(j) ==
    /\ jobs[j].pc = "stored"
    /\ jobs' = [jobs EXCEPT ![j].pc = "callback",
                            ![j].calc = IF jobs[j].calc = NoneVal
                                          THEN get_default_data ELSE jobs[j].calc]
    /\ UNCHANGED <<item_value, item_dirty, cached_value, cached_value_dirty>>
    /\ UNCHANGED <<in_progress, finish_event, raw, closed, num_outputs, at_schedule, at_return,
                   result, close_pc, calls, calc_calls, stored, late_callback>>
    /\ UNCHANGED <<quiet_close, raised, mutex, hvars, xvars>>

\* lines 75-79: a None result removes the cached value and resets the shadow.
\* item.remove_cached_value drops the slot's entry; a slot without an entry
\* reports dirty.
JobReset(j) ==
    /\ jobs[j].pc = "stored"
    /\ IF jobs[j].calc = NoneVal
         THEN /\ item_value' = NoneVal
              /\ item_dirty' = TRUE
              /\ cached_value' = NoneVal
              /\ cached_value_dirty' = "unset"
         ELSE UNCHANGED <<item_value, item_dirty, cached_value, cached_value_dirty>>
    /\ jobs' = [jobs EXCEPT ![j].pc = "callback",
                            ![j].calc = IF jobs[j].calc = NoneVal
                                          THEN get_default_data ELSE jobs[j].calc]
    /\ UNCHANGED <<in_progress, finish_event, raw, closed, num_outputs, at_schedule, at_return,
                   result, close_pc, calls, calc_calls, stored, late_callback>>
    /\ UNCHANGED <<quiet_close, raised, mutex, hvars, xvars>>

\* lines 80-81: the completion callback, which may itself raise
JobCallback(j, raises) ==
    /\ jobs[j].pc = "callback"
    /\ IF jobs[j].cb
         THEN /\ late_callback' = (late_callback \/ close_pc = "returned")
              /\ jobs' = IF raises THEN Ended(j)
                                   ELSE [jobs EXCEPT ![j].pc = "clearing"]
              /\ raised' = IF raises THEN "callback" ELSE raised
         ELSE /\ ~raises
              /\ late_callback' = late_callback
              /\ jobs' = [jobs EXCEPT ![j].pc = "clearing"]
              /\ raised' = raised
    /\ UNCHANGED <<in_progress, finish_event, cached_value, cached_value_dirty,
                   item_dirty, item_value, raw, closed, num_outputs, at_schedule, at_return,
                   result, close_pc, calls, calc_calls, stored>>
    /\ UNCHANGED <<quiet_close, mutex, hvars, xvars>>

\* a job that leaves the in-progress flag set
JobClear_Keep(j) ==
    /\ jobs[j].pc = "clearing"
    /\ mutex = "free"
    /\ jobs' = [jobs EXCEPT ![j].pc = "finishing"]
    /\ UNCHANGED <<in_progress, finish_event, cached_value, cached_value_dirty,
                   item_dirty, item_value, raw, closed, num_outputs, at_schedule, at_return,
                   result, close_pc, calls, calc_calls, stored, late_callback>>
    /\ UNCHANGED <<quiet_close, raised, mutex, hvars, xvars>>

\* lines 82-83: the in-progress flag is cleared under the mutex
JobClear(j) ==
    /\ jobs[j].pc = "clearing"
    /\ mutex = "free"
    /\ in_progress' = FALSE
    /\ jobs' = [jobs EXCEPT ![j].pc = "finishing"]
    /\ UNCHANGED <<finish_event, cached_value, cached_value_dirty,
                   item_dirty, item_value, raw, closed, num_outputs, at_schedule, at_return,
                   result, close_pc, calls, calc_calls, stored, late_callback>>
    /\ UNCHANGED <<quiet_close, raised, mutex, hvars, xvars>>

\* line 84: the finish event is set
JobFinish(j) ==
    /\ jobs[j].pc = "finishing"
    /\ finish_event' = TRUE
    /\ jobs' = Ended(j)
    /\ UNCHANGED <<in_progress, cached_value, cached_value_dirty,
                   item_dirty, item_value, raw, closed, num_outputs, at_schedule, at_return,
                   result, close_pc, calls, calc_calls, stored, late_callback>>
    /\ UNCHANGED <<quiet_close, raised, mutex, hvars, xvars>>

\* close(), lines 18-19: the call is made ...
CloseCall ==
    /\ close_pc = "open"
    /\ close_pc' = "waiting"
    /\ quiet_close' = (ActiveCalls = 0)
    /\ raised' = raised
    /\ mutex' = mutex
    /\ UNCHANGED <<in_progress, finish_event, cached_value, cached_value_dirty,
                   item_dirty, item_value, raw, closed, num_outputs, at_schedule, at_return,
                   result, jobs, calls, calc_calls, stored, late_callback>>
    /\ UNCHANGED <<hvars, xvars>>

\* ... and finish_event.wait() returns once the event is set
CloseReturn ==
    /\ close_pc = "waiting"
    /\ finish_event
    /\ close_pc' = "returned"
    /\ UNCHANGED <<in_progress, finish_event, cached_value, cached_value_dirty,
                   item_dirty, item_value, raw, closed, num_outputs, at_schedule, at_return,
                   result, jobs, calls, calc_calls, stored, late_callback>>
    /\ UNCHANGED <<quiet_close, raised, mutex, hvars, xvars>>

\* the steps that run inside "with self.__mutex": lines 82-83 and 85-89
UnderMutex ==
    \/ \E fn \in BOOLEAN : GetDataSchedule(fn)
    \/ \E j \in DOMAIN jobs : JobClear(j)

NextP ==
    \/ set_cached_value_dirty
    \/ \E v \in RawVals : SetRaw(v)
    \/ CloseDataItem
    \/ \E fn \in BOOLEAN : GetDataCheck(fn)
    \/ \E fn \in BOOLEAN : GetDataSchedule(fn)
    \/ GetDataReturn
    \/ \E j \in DOMAIN jobs : JobLoad(j)
    \/ \E j \in DOMAIN jobs, o \in CalcOutcomes : JobCalc(j, o)
    \/ \E j \in DOMAIN jobs : JobRaise(j)
    \/ \E j \in DOMAIN jobs : JobStore(j)
    \/ \E j \in DOMAIN jobs : JobReset(j)
    \/ \E j \in DOMAIN jobs, r \in BOOLEAN : JobCallback(j, r)
    \/ \E j \in DOMAIN jobs : JobClear(j)
    \/ \E j \in DOMAIN jobs : JobFinish(j)

\* the same with a thread that calls close()
NextC ==
    \/ NextP
    \/ CloseCall
    \/ CloseReturn

\* --------------------------------------------------- HistogramThread model

\* concurrent handle_data calls under way, and handle_data calls in a behaviour
NumNotifiers == 2
MaxNotifies == 3

\* time is counted in ticks of 0.1 s; the clocks stop counting at MaxClock
MaxClock == 2

\* a thread constructed with a minimum interval of one tick less
minimum_interval_Short == MaxClock - 1

\* HistogramThread.__init__, line 23: minimum_interval=0.2, in ticks
minimum_interval == 2

\* the data items that are notified; NoSubject is Python's None
Subjects == {"A", "B"}
NoSubject == "none"

\* HistogramThread.__init__, lines 22-32, and HistogramPanel.__init__, line 85;
\* the loop is started and waits
InitH ==
    /\ data_item = NoSubject
    /\ refs = [s \in Subjects |-> 0]
    /\ adding = [s \in Subjects |-> 0]
    /\ thread_break = FALSE
    /\ w_pc = "wait"
    /\ w_data = NoSubject
    /\ w_raised = FALSE
    /\ hclose_pc = "open"
    /\ panel_data_item = NoSubject
    /\ notifies = 0
    /\ stores = [s \in Subjects |-> 0]
    /\ replaced = [s \in Subjects |-> 0]
    /\ processed = [s \in Subjects |-> 0]
    /\ h_mutex = "free"
    /\ elapsed = MaxClock
    /\ panel_thread = TRUE
    /\ histogram_layer = NoSubject
    /\ histogram_dirty = TRUE
    /\ since_process = MaxClock

\* the subject's reference-counting interface
add_ref(r, s) == [r EXCEPT ![s] = @ + 1]
remove_ref(r, s) == [r EXCEPT ![s] = @ - 1]

\* the handle_data calls that have stored and not yet reached line 47
Notifying == adding["A"] + adding["B"]

\* handle_data that overwrites the slot without releasing what it replaces
HandleStore_NoRelease(s) ==
    /\ hclose_pc = "open"
    /\ h_mutex = "free"
    /\ notifies < MaxNotifies
    /\ Notifying < NumNotifiers
    /\ notifies' = notifies + 1
    /\ UNCHANGED <<refs, replaced>>
    /\ data_item' = s
    /\ IF s # NoSubject
         THEN /\ adding' = [adding EXCEPT ![s] = @ + 1]
              /\ stores' = [stores EXCEPT ![s] = @ + 1]
         ELSE UNCHANGED <<adding, stores>>
    /\ UNCHANGED <<thread_break, w_pc, w_data, w_raised, hclose_pc,
                   panel_data_item, processed>>
    /\ UNCHANGED <<h_mutex, elapsed, panel_thread, histogram_layer, histogram_dirty, since_process>>
    /\ UNCHANGED <<pvars, xvars>>

\* handle_data, lines 43-46: under the mutex, which the step takes and gives
\* back, the subject in the slot is released and the new one stored
handle_data(s) ==
    /\ h_mutex = "free"
    /\ notifies < MaxNotifies
    /\ Notifying < NumNotifiers
    /\ notifies' = notifies + 1
    /\ IF data_item # NoSubject
         THEN /\ refs' = remove_ref(refs, data_item)
              /\ replaced' = [replaced EXCEPT ![data_item] = @ + 1]
         ELSE UNCHANGED <<refs, replaced>>
    /\ data_item' = s
    /\ IF s # NoSubject
         THEN /\ adding' = [adding EXCEPT ![s] = @ + 1]
              /\ stores' = [stores EXCEPT ![s] = @ + 1]
         ELSE UNCHANGED <<adding, stores>>
    /\ UNCHANGED <<thread_break, w_pc, w_data, w_raised, hclose_pc,
                   panel_data_item, processed>>
    /\ UNCHANGED <<h_mutex, elapsed, panel_thread, histogram_layer, histogram_dirty, since_process>>
    /\ UNCHANGED <<pvars, xvars>>

\* handle_data called through update_data while close() has not been called
HandleStore(s) ==
    /\ hclose_pc = "open"
    /\ handle_data(s)

\* HistogramPanel.selected_data_item_changed, lines 266-268, called by the
\* document controller once HistogramPanel.close() has called the thread's
\* close(): the thread is notified as long as __histogram_thread is set
LateNotify(s) ==
    /\ hclose_pc # "open"
    /\ panel_thread
    /\ handle_data(s)

\* handle_data, lines 47-48: outside the mutex the new subject is add_ref'ed
HandleAddRef(s) ==
    /\ adding[s] > 0
    /\ refs' = add_ref(refs, s)
    /\ adding' = [adding EXCEPT ![s] = @ - 1]
    /\ UNCHANGED <<data_item, thread_break, w_pc, w_data, w_raised, hclose_pc,
                   panel_data_item, notifies, stores, replaced, processed>>
    /\ UNCHANGED <<h_mutex, elapsed, panel_thread, histogram_layer, histogram_dirty, since_process>>
    /\ UNCHANGED <<pvars, xvars>>

\* grab_data that returns the pending subject and leaves it in the slot
grab_data_Keep ==
    /\ h_mutex = "free"
    /\ w_data' = data_item
    /\ data_item' = data_item
    /\ h_mutex' = "free"

\* grab_data that returns with the mutex still held
grab_data_HoldLock ==
    /\ h_mutex = "free"
    /\ w_data' = data_item
    /\ data_item' = NoSubject
    /\ h_mutex' = "worker"

\* grab_data, lines 50-54: under the mutex, which the step takes and gives
\* back, the slot is emptied and its content returned
grab_data ==
    /\ h_mutex = "free"
    /\ w_data' = data_item
    /\ data_item' = NoSubject
    /\ h_mutex' = "free"

\* 0.1 s passes
Tick ==
    /\ elapsed < MaxClock \/ since_process < MaxClock
    /\ elapsed' = IF elapsed < MaxClock THEN elapsed + 1 ELSE elapsed
    /\ since_process' = IF since_process < MaxClock THEN since_process + 1
                                                    ELSE since_process
    /\ UNCHANGED <<data_item, refs, adding, thread_break, w_pc, w_data, w_raised,
                   hclose_pc, panel_data_item, notifies, stores, replaced,
                   processed, h_mutex, panel_thread, histogram_layer,
                   histogram_dirty>>
    /\ UNCHANGED <<pvars, xvars>>

\* the loop takes the pending subject once the minimum interval has elapsed
\* since its last pass, unless it has been told to terminate
WorkerGrab ==
    /\ w_pc = "wait"
    /\ ~thread_break
    /\ elapsed >= minimum_interval
    /\ grab_data
    /\ w_pc' = "process"
    /\ w_raised' = FALSE
    /\ UNCHANGED <<refs, adding, thread_break, hclose_pc, panel_data_item,
                   notifies, stores, replaced, processed>>
    /\ UNCHANGED <<elapsed, panel_thread, histogram_layer, histogram_dirty, since_process>>
    /\ UNCHANGED <<pvars, xvars>>

\* HistogramPanel.__make_histogram, lines 152-165, after line 260 has set
\* __histogram_dirty: the layer is cleared and drawn anew only if the data
\* item is there and has histogram data (some)
make_histogram(d, some) ==
    IF d # NoSubject /\ some
      THEN histogram_dirty' = FALSE /\ histogram_layer' = d
      ELSE histogram_dirty' = TRUE /\ histogram_layer' = histogram_layer

\* HistogramPanel._set_data_item, lines 251-262; when drawing raises
\* (raises) the layer is left as it was
set_data_item(d, some, raises) ==
    /\ panel_data_item' = d
    /\ IF raises
         THEN histogram_dirty' = TRUE /\ histogram_layer' = histogram_layer
         ELSE make_histogram(d, some)

\* a process_data that does nothing when it is given None
process_data_SkipNone(d, some, raises) ==
    /\ IF d # NoSubject
         THEN set_data_item(d, some, raises)
         ELSE UNCHANGED <<panel_data_item, histogram_dirty, histogram_layer>>
    /\ processed' = IF d # NoSubject THEN [processed EXCEPT ![d] = @ + 1]
                                     ELSE processed

\* process_data, lines 56-57: the panel is given the subject
process_data(d, some, raises) ==
    /\ set_data_item(d, some, raises)
    /\ processed' = IF d # NoSubject THEN [processed EXCEPT ![d] = @ + 1]
                                     ELSE processed

\* the loop invokes the compute/publish step with what it took
WorkerProcess(raises, some) ==
    /\ w_pc = "process"
    /\ process_data(w_data, some, raises)
    /\ since_process' = 0
    /\ w_raised' = raises
    /\ w_pc' = "release"
    /\ UNCHANGED <<data_item, refs, adding, thread_break, w_data, hclose_pc,
                   notifies, stores, replaced>>
    /\ UNCHANGED <<h_mutex, elapsed, panel_thread>>
    /\ UNCHANGED <<pvars, xvars>>

\* release_data that forgets the remove_ref
release_data_Noop(d) == refs' = refs

\* release_data, lines 59-60
release_data(d) == refs' = remove_ref(refs, d)

\* the loop releases the subject it took, whether or not process_data
\* raised, resets its interval timer and goes on to wait for its next pass
WorkerRelease ==
    /\ w_pc = "release"
    /\ IF w_data # NoSubject THEN release_data(w_data) ELSE refs' = refs
    /\ w_data' = NoSubject
    /\ elapsed' = 0
    /\ w_pc' = "wait"
    /\ UNCHANGED <<data_item, adding, thread_break, w_raised, hclose_pc, panel_data_item,
                   notifies, stores, replaced, processed>>
    /\ UNCHANGED <<h_mutex, panel_thread, histogram_layer, histogram_dirty, since_process>>
    /\ UNCHANGED <<pvars, xvars>>

\* the loop ends when it has been told to terminate
WorkerExit ==
    /\ w_pc = "wait"
    /\ thread_break
    /\ w_pc' = "ended"
    /\ UNCHANGED <<data_item, refs, adding, thread_break, w_data, w_raised,
                   hclose_pc, panel_data_item, notifies, stores, replaced,
                   processed>>
    /\ UNCHANGED <<h_mutex, elapsed, panel_thread, histogram_layer, histogram_dirty, since_process>>
    /\ UNCHANGED <<pvars, xvars>>

\* HistogramThread.close, line 35: super.close() tells the loop to terminate ...
HCloseCall ==
    /\ hclose_pc = "open"
    /\ thread_break' = TRUE
    /\ hclose_pc' = "joining"
    /\ UNCHANGED <<data_item, refs, adding, w_pc, w_data, w_raised,
                   panel_data_item, notifies, stores, replaced, processed>>
    /\ UNCHANGED <<h_mutex, elapsed, panel_thread, histogram_layer, histogram_dirty, since_process>>
    /\ UNCHANGED <<pvars, xvars>>

\* ... and returns when the loop has ended
HCloseJoin ==
    /\ hclose_pc = "joining"
    /\ w_pc = "ended"
    /\ hclose_pc' = "joined"
    /\ UNCHANGED <<data_item, refs, adding, thread_break, w_pc, w_data,
                   w_raised, panel_data_item, notifies, stores, replaced,
                   processed>>
    /\ UNCHANGED <<h_mutex, elapsed, panel_thread, histogram_layer, histogram_dirty, since_process>>
    /\ UNCHANGED <<pvars, xvars>>

\* close that releases the slot's subject without the test of line 39 having
\* any effect on an empty slot, and twice on a full one
CloseRelease_Twice ==
    IF data_item # NoSubject
      THEN refs' = remove_ref(remove_ref(refs, data_item), data_item)
      ELSE refs' = refs

\* close that leaves the residual subject's reference in place
CloseRelease_Never == refs' = refs

\* HistogramThread.close, lines 38-40: a subject left in the slot is released
CloseRelease ==
    IF data_item # NoSubject THEN refs' = remove_ref(refs, data_item)
                             ELSE refs' = refs

HCloseRelease ==
    /\ hclose_pc = "joined"
    /\ h_mutex = "free"
    /\ CloseRelease
    /\ h_mutex' = "free"
    /\ hclose_pc' = "done"
    /\ UNCHANGED <<data_item, adding, thread_break, w_pc, w_data, w_raised,
                   panel_data_item, notifies, stores, replaced, processed>>
    /\ UNCHANGED <<elapsed, panel_thread, histogram_layer, histogram_dirty, since_process>>
    /\ UNCHANGED <<pvars, xvars>>

\* HistogramPanel.close, line 105, after the thread's close() of line 104
\* has returned; line 107 then finds no thread to notify
PanelForget ==
    /\ hclose_pc = "done"
    /\ panel_thread
    /\ panel_thread' = FALSE
    /\ UNCHANGED <<data_item, refs, adding, thread_break, w_pc, w_data, w_raised,
                   hclose_pc, panel_data_item, notifies, stores, replaced,
                   processed, h_mutex, elapsed, histogram_layer,
                   histogram_dirty, since_process>>
    /\ UNCHANGED <<pvars, xvars>>

\* HistogramThread.close() called once more on the closed thread, lines
\* 34-40: the thread has ended, so line 35 returns at once; lines 38-40 then
\* test the slot, which no line of close() has emptied
HCloseAgain ==
    /\ hclose_pc = "done"
    /\ h_mutex = "free"
    /\ CloseRelease
    /\ h_mutex' = "free"
    /\ hclose_pc' = "again"
    /\ UNCHANGED <<data_item, adding, thread_break, w_pc, w_data, w_raised,
                   panel_data_item, notifies, stores, replaced, processed>>
    /\ UNCHANGED <<elapsed, panel_thread, histogram_layer, histogram_dirty, since_process>>
    /\ UNCHANGED <<pvars, xvars>>

NextH ==
    \/ \E s \in Subjects \cup {NoSubject} : HandleStore(s)
    \/ \E s \in Subjects : HandleAddRef(s)
    \/ Tick
    \/ WorkerGrab
    \/ \E r, some \in BOOLEAN : WorkerProcess(r, some)
    \/ WorkerRelease
    \/ WorkerExit
    \/ HCloseCall
    \/ HCloseJoin
    \/ HCloseRelease
    \/ PanelForget

\* the same with a document controller that goes on notifying the panel
\* while HistogramPanel.close() runs
NextL ==
    \/ NextH
    \/ \E s \in Subjects \cup {NoSubject} : LateNotify(s)

\* the same with a caller that closes the thread a second time
NextK ==
    \/ NextH
    \/ HCloseAgain

\* ------------------------------------------------- HistogramPanel drawing

MaxSets == 2        \* _set_data_item calls
MaxEvents == 2      \* UI events

Threads == {"worker", "ui"}

\* display limits: (0, 1), (start, start) and (min(start, current), max(...))
FullLimits == "full"
DisplayLimits == {FullLimits, "point", "range"}

\* HistogramPanel.__init__, lines 85-99
InitD ==
    /\ d_item = NoSubject
    /\ d_dirty = TRUE
    /\ d_adorn_dirty = TRUE
    /\ d_limits = FullLimits
    /\ pressed = FALSE
    /\ update_lock = "free"
    /\ d_layer = NoSubject
    /\ d_adorn_layer = "blank"
    /\ t_pc = [t \in Threads |-> "idle"]
    /\ t_local = [t \in Threads |-> NoSubject]
    /\ wk_arg = NoSubject
    /\ wk_pressed = FALSE
    /\ ui_limits = FullLimits
    /\ d_sets = 0
    /\ d_events = 0

\* what a panel action leaves alone
besides_d == <<pvars, hvars, nvars, bvars, gvars>>

\* _set_data_item, line 255, called by process_data on the worker thread
SetDataItem(x) ==
    /\ t_pc["worker"] = "idle"
    /\ d_sets < MaxSets
    /\ d_sets' = d_sets + 1
    /\ wk_arg' = x
    /\ d_item' = x
    /\ t_pc' = [t_pc EXCEPT !["worker"] = "test"]
    /\ UNCHANGED <<d_dirty, d_adorn_dirty, d_limits, pressed, update_lock,
                   d_layer, d_adorn_layer, t_local, wk_pressed, ui_limits,
                   d_events>>
    /\ UNCHANGED besides_d

\* _set_data_item, line 258: the test of pressed
TestPressed ==
    /\ t_pc["worker"] = "test"
    /\ wk_pressed' = pressed
    /\ t_pc' = [t_pc EXCEPT !["worker"] = "limits"]
    /\ UNCHANGED <<d_item, d_dirty, d_adorn_dirty, d_limits, pressed,
                   update_lock, d_layer, d_adorn_layer, t_local, wk_arg,
                   ui_limits, d_sets, d_events>>
    /\ UNCHANGED besides_d

\* _set_data_item, line 259: the assignment the test guards
ResetLimits ==
    /\ t_pc["worker"] = "limits"
    /\ d_limits' = IF wk_pressed THEN d_limits ELSE FullLimits
    /\ t_pc' = [t_pc EXCEPT !["worker"] = "hdirty"]
    /\ UNCHANGED <<d_item, d_dirty, d_adorn_dirty, pressed, update_lock,
                   d_layer, d_adorn_layer, t_local, wk_arg, wk_pressed,
                   ui_limits, d_sets, d_events>>
    /\ UNCHANGED besides_d

\* _set_data_item, line 260
MarkHistogramDirty ==
    /\ t_pc["worker"] = "hdirty"
    /\ d_dirty' = TRUE
    /\ t_pc' = [t_pc EXCEPT !["worker"] = "adirty"]
    /\ UNCHANGED <<d_item, d_adorn_dirty, d_limits, pressed, update_lock,
                   d_layer, d_adorn_layer, t_local, wk_arg, wk_pressed,
                   ui_limits, d_sets, d_events>>
    /\ UNCHANGED besides_d

\* line 261 of _set_data_item and line 115 of __set_display_limits
MarkAdornmentsDirty(t) ==
    /\ t_pc[t] = "adirty"
    /\ d_adorn_dirty' = TRUE
    /\ t_pc' = [t_pc EXCEPT ![t] = "lock"]
    /\ UNCHANGED <<d_item, d_dirty, d_limits, pressed, update_lock, d_layer,
                   d_adorn_layer, t_local, wk_arg, wk_pressed, ui_limits,
                   d_sets, d_events>>
    /\ UNCHANGED besides_d

\* __update_histogram, line 243: the update lock is taken
AcquireUpdateLock(t) ==
    /\ t_pc[t] = "lock"
    /\ update_lock = "free"
    /\ update_lock' = t
    /\ t_pc' = [t_pc EXCEPT ![t] = "read"]
    /\ UNCHANGED <<d_item, d_dirty, d_adorn_dirty, d_limits, pressed, d_layer,
                   d_adorn_layer, t_local, wk_arg, wk_pressed, ui_limits,
                   d_sets, d_events>>
    /\ UNCHANGED besides_d

\* __make_histogram, line 154: the histogram data of the current data item,
\* None when there is no data item
ReadHistogramData(t) ==
    /\ t_pc[t] = "read"
    /\ t_local' = [t_local EXCEPT ![t] = d_item]
    /\ t_pc' = [t_pc EXCEPT ![t] = "hist"]
    /\ UNCHANGED <<d_item, d_dirty, d_adorn_dirty, d_limits, pressed,
                   update_lock, d_layer, d_adorn_layer, wk_arg, wk_pressed,
                   ui_limits, d_sets, d_events>>
    /\ UNCHANGED besides_d

\* __make_histogram, lines 156-181: a dirty histogram is drawn from the data
\* read at line 154 and the flag is cleared
DrawHistogram(t) ==
    /\ t_pc[t] = "hist"
    /\ IF d_dirty /\ t_local[t] # NoSubject
         THEN d_dirty' = FALSE /\ d_layer' = t_local[t]
         ELSE UNCHANGED <<d_dirty, d_layer>>
    /\ t_pc' = [t_pc EXCEPT ![t] = "adorn"]
    /\ UNCHANGED <<d_item, d_adorn_dirty, d_limits, pressed, update_lock,
                   d_adorn_layer, t_local, wk_arg, wk_pressed, ui_limits,
                   d_sets, d_events>>
    /\ UNCHANGED besides_d

\* __make_adornments, lines 185-232
DrawAdornments(t) ==
    /\ t_pc[t] = "adorn"
    /\ IF d_adorn_dirty
         THEN d_adorn_dirty' = FALSE /\ d_adorn_layer' = d_limits
         ELSE UNCHANGED <<d_adorn_dirty, d_adorn_layer>>
    /\ t_pc' = [t_pc EXCEPT ![t] = "draw"]
    /\ UNCHANGED <<d_item, d_dirty, d_limits, pressed, update_lock, d_layer,
                   t_local, wk_arg, wk_pressed, ui_limits, d_sets, d_events>>
    /\ UNCHANGED besides_d

\* __update_canvas, lines 237-239, and the end of the with block of line 243
UpdateCanvas(t) ==
    /\ t_pc[t] = "draw"
    /\ update_lock' = "free"
    /\ t_pc' = [t_pc EXCEPT ![t] = "idle"]
    /\ UNCHANGED <<d_item, d_dirty, d_adorn_dirty, d_limits, pressed, d_layer,
                   d_adorn_layer, t_local, wk_arg, wk_pressed, ui_limits,
                   d_sets, d_events>>
    /\ UNCHANGED besides_d

\* size_changed, lines 118-121, with a positive width and height
size_changed ==
    /\ t_pc["ui"] = "idle"
    /\ d_events < MaxEvents
    /\ d_events' = d_events + 1
    /\ d_dirty' = TRUE
    /\ t_pc' = [t_pc EXCEPT !["ui"] = "lock"]
    /\ UNCHANGED <<d_item, d_adorn_dirty, d_limits, pressed, update_lock,
                   d_layer, d_adorn_layer, t_local, wk_arg, wk_pressed,
                   ui_limits, d_sets>>
    /\ UNCHANGED besides_d

\* mouse_pressed, lines 128-131, up to the call of __set_display_limits
mouse_pressed ==
    /\ t_pc["ui"] = "idle"
    /\ d_events < MaxEvents
    /\ ~pressed
    /\ d_events' = d_events + 1
    /\ pressed' = TRUE
    /\ ui_limits' = "point"
    /\ t_pc' = [t_pc EXCEPT !["ui"] = "setlim"]
    /\ UNCHANGED <<d_item, d_dirty, d_adorn_dirty, d_limits, update_lock,
                   d_layer, d_adorn_layer, t_local, wk_arg, wk_pressed, d_sets>>
    /\ UNCHANGED besides_d

\* mouse_released, lines 133-140: the panel itself keeps its display limits
mouse_released ==
    /\ t_pc["ui"] = "idle"
    /\ d_events < MaxEvents
    /\ pressed
    /\ d_events' = d_events + 1
    /\ pressed' = FALSE
    /\ UNCHANGED <<d_item, d_dirty, d_adorn_dirty, d_limits, update_lock,
                   d_layer, d_adorn_layer, t_pc, t_local, wk_arg, wk_pressed,
                   ui_limits, d_sets>>
    /\ UNCHANGED besides_d

\* mouse_position_changed, lines 142-147, while the button is down
mouse_position_changed ==
    /\ t_pc["ui"] = "idle"
    /\ d_events < MaxEvents
    /\ pressed
    /\ d_events' = d_events + 1
    /\ ui_limits' = "range"
    /\ t_pc' = [t_pc EXCEPT !["ui"] = "setlim"]
    /\ UNCHANGED <<d_item, d_dirty, d_adorn_dirty, d_limits, pressed,
                   update_lock, d_layer, d_adorn_layer, t_local, wk_arg,
                   wk_pressed, d_sets>>
    /\ UNCHANGED besides_d

\* mouse_double_clicked, lines 123-124
mouse_double_clicked ==
    /\ t_pc["ui"] = "idle"
    /\ d_events < MaxEvents
    /\ d_events' = d_events + 1
    /\ ui_limits' = FullLimits
    /\ t_pc' = [t_pc EXCEPT !["ui"] = "setlim"]
    /\ UNCHANGED <<d_item, d_dirty, d_adorn_dirty, d_limits, pressed,
                   update_lock, d_layer, d_adorn_layer, t_local, wk_arg,
                   wk_pressed, d_sets>>
    /\ UNCHANGED besides_d

\* __set_display_limits, line 114
SetDisplayLimits ==
    /\ t_pc["ui"] = "setlim"
    /\ d_limits' = ui_limits
    /\ t_pc' = [t_pc EXCEPT !["ui"] = "adirty"]
    /\ UNCHANGED <<d_item, d_dirty, d_adorn_dirty, pressed, update_lock,
                   d_layer, d_adorn_layer, t_local, wk_arg, wk_pressed,
                   ui_limits, d_sets, d_events>>
    /\ UNCHANGED besides_d

NextD ==
    \/ \E x \in Subjects \cup {NoSubject} : SetDataItem(x)
    \/ TestPressed
    \/ ResetLimits
    \/ MarkHistogramDirty
    \/ \E t \in Threads : MarkAdornmentsDirty(t)
    \/ \E t \in Threads : AcquireUpdateLock(t)
    \/ \E t \in Threads : ReadHistogramData(t)
    \/ \E t \in Threads : DrawHistogram(t)
    \/ \E t \in Threads : DrawAdornments(t)
    \/ \E t \in Threads : UpdateCanvas(t)
    \/ size_changed
    \/ mouse_pressed
    \/ mouse_released
    \/ mouse_position_changed
    \/ mouse_double_clicked
    \/ SetDisplayLimits

\* --------------------------- DataListController and DataGridController

MaxSignals == 3     \* needs-update signals per controller

Controllers == {"list", "grid"}

\* __init__, lines 249-253; no task is queued for a new controller
InitN ==
    /\ n_changed = [c \in Controllers |-> FALSE]
    /\ n_queued = [c \in Controllers |-> FALSE]
    /\ n_closed = [c \in Controllers |-> FALSE]
    /\ n_running = "none"
    /\ n_local = FALSE
    /\ n_pc = "take"
    /\ n_signals = [c \in Controllers |-> 0]
    /\ n_runs = [c \in Controllers |-> 0]
    /\ n_updates = [c \in Controllers |-> 0]
    /\ n_fresh = [c \in Controllers |-> FALSE]

besides_n == <<pvars, hvars, dvars, bvars, gvars>>

\* a needs-update handler that sets the flag and queues no task
display_item_needs_update_NoTask(c) ==
    /\ ~n_closed[c]
    /\ n_signals[c] < MaxSignals
    /\ n_signals' = [n_signals EXCEPT ![c] = @ + 1]
    /\ n_changed' = [n_changed EXCEPT ![c] = TRUE]
    /\ n_fresh' = [n_fresh EXCEPT ![c] = FALSE]
    /\ UNCHANGED <<n_queued, n_closed, n_running, n_local, n_pc, n_runs, n_updates>>
    /\ UNCHANGED besides_n

\* __display_item_needs_update, lines 308-311 and 491-494, on any thread:
\* under the mutex the flag is set and the update task is queued under the
\* controller's key, where it replaces a task queued before
display_item_needs_update(c) ==
    /\ ~n_closed[c]
    /\ n_signals[c] < MaxSignals
    /\ n_signals' = [n_signals EXCEPT ![c] = @ + 1]
    /\ n_changed' = [n_changed EXCEPT ![c] = TRUE]
    /\ n_queued' = [n_queued EXCEPT ![c] = TRUE]
    /\ n_fresh' = [n_fresh EXCEPT ![c] = FALSE]
    /\ UNCHANGED <<n_closed, n_running, n_local, n_pc, n_runs, n_updates>>
    /\ UNCHANGED besides_n

\* the document controller takes the task queued under the key and the UI
\* thread begins to run it
TaskStart(c) ==
    /\ n_running = "none"
    /\ n_queued[c]
    /\ n_queued' = [n_queued EXCEPT ![c] = FALSE]
    /\ n_running' = c
    /\ n_pc' = "take"
    /\ UNCHANGED <<n_changed, n_closed, n_local, n_signals, n_runs, n_updates, n_fresh>>
    /\ UNCHANGED besides_n

\* __update_display_items, lines 272-274 and 458-460: under the mutex the
\* flag is read and cleared
TakeChanged ==
    /\ n_running # "none"
    /\ n_pc = "take"
    /\ n_local' = n_changed[n_running]
    /\ n_changed' = [n_changed EXCEPT ![n_running] = FALSE]
    /\ n_pc' = "update"
    /\ UNCHANGED <<n_queued, n_closed, n_running, n_signals, n_runs, n_updates, n_fresh>>
    /\ UNCHANGED besides_n

\* __update_display_items, lines 275-276 and 461-462: the canvas item is
\* updated when the flag was set
UpdateCanvasItem ==
    /\ n_running # "none"
    /\ n_pc = "update"
    /\ IF n_local
         THEN /\ n_updates' = [n_updates EXCEPT ![n_running] = @ + 1]
              /\ n_fresh' = [n_fresh EXCEPT ![n_running] = TRUE]
         ELSE UNCHANGED <<n_updates, n_fresh>>
    /\ n_runs' = [n_runs EXCEPT ![n_running] = @ + 1]
    /\ n_running' = "none"
    /\ n_local' = FALSE
    /\ n_pc' = "take"
    /\ UNCHANGED <<n_changed, n_queued, n_closed, n_signals>>
    /\ UNCHANGED besides_n

\* close(), lines 255-267 and 440-455, on the UI thread: the queued task is
\* cleared and the needs-update listeners are closed
CloseController(c) ==
    /\ n_running = "none"
    /\ ~n_closed[c]
    /\ n_closed' = [n_closed EXCEPT ![c] = TRUE]
    /\ n_queued' = [n_queued EXCEPT ![c] = FALSE]
    /\ UNCHANGED <<n_changed, n_running, n_local, n_pc, n_signals, n_runs,
                   n_updates, n_fresh>>
    /\ UNCHANGED besides_n

NextN ==
    \/ \E c \in Controllers : display_item_needs_update(c)
    \/ \E c \in Controllers : TaskStart(c)
    \/ TakeChanged
    \/ UpdateCanvasItem
    \/ \E c \in Controllers : CloseController(c)

\* ----------------------------------------------- DataBrowserController

MaxNested == 2      \* calls made from listeners during one outer call

\* data groups, data items ("T" has the category "temporary") and filter
\* ids; "none" is None
BGroups == {"none", "G"}
BItems == {"none", "N", "T"}
BFilters == {"none", "all", "temporary"}

\* lines 592-595: the filter id in effect
EffectiveFilter(i, f) == IF i = "T" THEN "temporary" ELSE f

\* __init__, lines 560-571
InitB ==
    /\ b_blocked = FALSE
    /\ b_data_group = "none"
    /\ b_data_item = "none"
    /\ b_filter_id = "none"
    /\ b_pc = "idle"
    /\ b_args = <<>>
    /\ b_trigger = FALSE
    /\ b_fired = {}
    /\ b_before = <<"none", "none", "none">>
    /\ b_nested = 0
    /\ b_raised = FALSE
    /\ b_repeat = FALSE

besides_b == <<pvars, hvars, dvars, nvars, gvars>>

\* set_data_browser_selection called while no call is executing, lines
\* 587-601: the flag is set, and a changed group or filter is stored
BeginSelection(g, i, f) ==
    /\ b_pc = "idle"
    /\ ~b_blocked
    /\ b_blocked' = TRUE
    /\ b_args' = <<g, i, f>>
    /\ b_before' = <<b_data_group, b_filter_id, b_data_item>>
    /\ b_repeat' = (b_args = <<g, i, f>> /\ ~b_raised)
    /\ b_trigger' = FALSE
    /\ b_fired' = {}
    /\ b_nested' = 0
    /\ b_raised' = FALSE
    /\ IF g # b_data_group \/ EffectiveFilter(i, f) # b_filter_id
         THEN /\ b_data_group' = g
              /\ b_filter_id' = EffectiveFilter(i, f)
              /\ b_pc' = "notify"
         ELSE /\ UNCHANGED <<b_data_group, b_filter_id>>
              /\ b_pc' = "item"
    /\ UNCHANGED b_data_item
    /\ UNCHANGED besides_b

\* lines 604-612: the document controller is told, periodic() runs, the
\* filter changed event is fired and its listeners have returned
FireFilterChanged ==
    /\ b_pc = "notify"
    /\ b_fired' = b_fired \cup {"filter"}
    /\ b_trigger' = TRUE
    /\ b_pc' = "item"
    /\ UNCHANGED <<b_blocked, b_data_group, b_data_item, b_filter_id, b_args,
                   b_before, b_nested, b_raised, b_repeat>>
    /\ UNCHANGED besides_b

\* a test of the data item that stores it and leaves trigger alone
TestDataItem_NoTrigger ==
    /\ b_pc = "item"
    /\ b_data_item' = b_args[2]
    /\ b_pc' = IF b_trigger THEN "fire" ELSE "finally"
    /\ UNCHANGED <<b_blocked, b_data_group, b_filter_id, b_args, b_trigger,
                   b_fired, b_before, b_nested, b_raised, b_repeat>>
    /\ UNCHANGED besides_b

\* lines 615-619: a changed data item is stored
TestDataItem ==
    /\ b_pc = "item"
    /\ b_data_item' = b_args[2]
    /\ b_trigger' = (b_trigger \/ b_data_item # b_args[2])
    /\ b_pc' = IF b_trigger' THEN "fire" ELSE "finally"
    /\ UNCHANGED <<b_blocked, b_data_group, b_filter_id, b_args, b_fired,
                   b_before, b_nested, b_raised, b_repeat>>
    /\ UNCHANGED besides_b

\* line 620: the selection changed event is fired and its listeners have
\* returned
FireSelectionChanged ==
    /\ b_pc = "fire"
    /\ b_fired' = b_fired \cup {"selection"}
    /\ b_pc' = "finally"
    /\ UNCHANGED <<b_blocked, b_data_group, b_data_item, b_filter_id, b_args,
                   b_trigger, b_before, b_nested, b_raised, b_repeat>>
    /\ UNCHANGED besides_b

\* lines 621-622 on a normal return
EndSelection ==
    /\ b_pc = "finally"
    /\ b_blocked' = FALSE
    /\ b_pc' = "idle"
    /\ UNCHANGED <<b_data_group, b_data_item, b_filter_id, b_args, b_trigger,
                   b_fired, b_before, b_nested, b_raised, b_repeat>>
    /\ UNCHANGED besides_b

\* lines 604-611 or line 620 raise (the document controller or a listener):
\* the finally clause of lines 621-622 runs and the exception leaves the call
RaiseInSelection ==
    /\ b_pc \in {"notify", "fire"}
    /\ b_blocked' = FALSE
    /\ b_raised' = TRUE
    /\ b_pc' = "idle"
    /\ UNCHANGED <<b_data_group, b_data_item, b_filter_id, b_args, b_trigger,
                   b_fired, b_before, b_nested, b_repeat>>
    /\ UNCHANGED besides_b

\* the whole of lines 588-622 run by a call made from a listener, whose
\* own listeners return at once
NestedBody(g, i, f) ==
    /\ b_data_group' = g
    /\ b_filter_id' = EffectiveFilter(i, f)
    /\ b_data_item' = i
    /\ b_fired' = b_fired
            \cup (IF g # b_data_group \/ EffectiveFilter(i, f) # b_filter_id
                    THEN {"filter", "selection"} ELSE {})
            \cup (IF i # b_data_item THEN {"selection"} ELSE {})
    /\ b_blocked' = FALSE

\* a call from a listener that does not test the flag
NestedSelection_Unguarded(g, i, f) ==
    /\ b_pc \in {"notify", "fire"}
    /\ b_nested < MaxNested
    /\ b_nested' = b_nested + 1
    /\ NestedBody(g, i, f)
    /\ UNCHANGED <<b_pc, b_args, b_trigger, b_before, b_raised, b_repeat>>
    /\ UNCHANGED besides_b

\* set_data_browser_selection called from a listener of the outer call,
\* lines 586-622: line 587 tests the flag
NestedSelection(g, i, f) ==
    /\ b_pc \in {"notify", "fire"}
    /\ b_nested < MaxNested
    /\ b_nested' = b_nested + 1
    /\ IF ~b_blocked
         THEN NestedBody(g, i, f)
         ELSE UNCHANGED <<b_data_group, b_filter_id, b_data_item, b_fired, b_blocked>>
    /\ UNCHANGED <<b_pc, b_args, b_trigger, b_before, b_raised, b_repeat>>
    /\ UNCHANGED besides_b

NextB ==
    \/ \E g \in BGroups, i \in BItems, f \in BFilters : BeginSelection(g, i, f)
    \/ FireFilterChanged
    \/ TestDataItem
    \/ FireSelectionChanged
    \/ EndSelection
    \/ RaiseInSelection
    \/ \E g \in BGroups, i \in BItems, f \in BFilters : NestedSelection(g, i, f)

\* -------------------------------------------- DataGroupModelController

GGroups == {"g1", "g2", "g3"}

\* the five listener dictionaries of lines 745-749
ListenerDicts == {"property_changed", "item_inserted", "item_removed",
                  "data_item_inserted", "data_item_removed"}

\* __init__, lines 740-752, on a document without data groups
InitG ==
    /\ g_parent = [g \in GGroups |-> "none"]
    /\ g_mapping = {}
    /\ g_listeners = [d \in ListenerDicts |-> {}]

besides_g == <<pvars, hvars, dvars, nvars, bvars>>

\* the containers above a data group, the document ("root") included
RECURSIVE Closure(_)
Closure(S) ==
    LET T == S \cup {g_parent[x] : x \in S \cap GGroups}
    IN  IF T = S THEN S ELSE Closure(T)

Ancestors(g) == Closure({g_parent[g]})

\* the data groups held, directly or not, by a data group
Descendants(g) == {h \in GGroups : g \in Ancestors(h)}

\* the data groups of the document, which the tree shows
TreeGroups == {g \in GGroups : "root" \in Ancestors(g)}

\* the controller listens to the events of a container: lines 740-741 for
\* the document, lines 821-822 for a data group
Listening(c, d) == c = "root" \/ c \in g_listeners[d]

\* item_inserted, lines 803-829: the data group and, by the recursion of
\* lines 827-829, the groups below it get a mapping entry and five listeners
item_inserted(c, g) ==
    /\ g_mapping' = g_mapping \cup {g} \cup Descendants(g)
    /\ g_listeners' = [d \in ListenerDicts |->
                          g_listeners[d] \cup {g} \cup Descendants(g)]

\* item_removed, lines 833-852: the five listeners of the data group are
\* closed and deleted and its mapping entry is popped
item_removed(c, g) ==
    /\ g_mapping' = g_mapping \ {g}
    /\ g_listeners' = [d \in ListenerDicts |-> g_listeners[d] \ {g}]

\* a data group, with the groups it holds, is inserted into a container;
\* the container's item inserted event reaches the controller if it listens
InsertDataGroup(c, g) ==
    /\ g_parent[g] = "none"
    /\ c # g
    /\ c \notin Descendants(g)
    /\ g_parent' = [g_parent EXCEPT ![g] = c]
    /\ IF Listening(c, "item_inserted")
         THEN item_inserted(c, g)
         ELSE UNCHANGED <<g_mapping, g_listeners>>
    /\ UNCHANGED besides_g

\* a data group is removed from its container; the container's item
\* removed event reaches the controller if it listens
RemoveDataGroup(g) ==
    /\ g_parent[g] # "none"
    /\ g_parent' = [g_parent EXCEPT ![g] = "none"]
    /\ IF Listening(g_parent[g], "item_removed")
         THEN item_removed(g_parent[g], g)
         ELSE UNCHANGED <<g_mapping, g_listeners>>
    /\ UNCHANGED besides_g

NextG ==
    \/ \E c \in GGroups \cup {"root"}, g \in GGroups : InsertDataGroup(c, g)
    \/ \E g \in GGroups : RemoveDataGroup(g)

\* ---------------------------------------------------------- specifications
InitX == InitD /\ InitN /\ InitB /\ InitG

Init == InitP /\ InitH /\ InitX

\* DataItemProcessor while close() is not called
SpecP == Init /\ [][NextP]_vars

\* DataItemProcessor with a call of close()
SpecC == Init /\ [][NextC]_vars

\* HistogramThread alone, beside one fixed DataItemProcessor
InitFixedP == Init /\ item_dirty /\ raw = NoneVal /\ num_outputs = 1

SpecH == InitFixedP /\ [][NextH]_vars

\* HistogramPanel.close() racing with the document controller
SpecL == InitFixedP /\ [][NextL]_vars

\* HistogramThread closed twice
SpecK == InitFixedP /\ [][NextK]_vars

\* HistogramPanel: the worker's _set_data_item beside the UI thread's handlers
SpecD == InitFixedP /\ [][NextD]_vars

\* the needs-update signal of the list and grid controllers
SpecN == InitFixedP /\ [][NextN]_vars

\* DataBrowserController.set_data_browser_selection
SpecB == InitFixedP /\ [][NextB]_vars

\* DataGroupModelController beside a document whose data groups change
SpecG == InitFixedP /\ [][NextG]_vars

\* both components, one of them at a time beside the other at rest: the two
\* share no state, so every state of each component is reached
NextU ==
    \/ InitH /\ NextP
    \/ (InitP /\ item_dirty /\ raw = NoneVal /\ num_outputs = 1) /\ NextH

SpecU == Init /\ [][NextU]_vars

Next == NextC \/ NextH

Spec == Init /\ [][Next]_vars

\* ------------------------------------------------------------------ claims

\* the tasks that are scheduled and have not yet cleared the in-progress
\* flag (line 83) nor ended by raising
InFlight == {j \in DOMAIN jobs : jobs[j].pc # "finishing"}

C2_FlagClearedOnRaise ==
    [][\A j \in DOMAIN jobs :
          (jobs[j].pc = "raising" /\ jobs' = Ended(j)) => ~in_progress']_vars

\* C3: once close() has returned no job is in flight and no completion
\* callback runs; stated for a close() called while no get_data call was
\* under way.
C3_CloseDrains ==
    (close_pc = "returned" /\ quiet_close) => (InFlight = {} /\ ~late_callback)

\* C4: when close() has returned and every handle_data call has returned,
\* each subject has had as many remove_ref as add_ref calls; and after a
\* single notification of a subject and the pass that processed it, the
\* subject's reference count is back at its value before the notification.
C4_RefsBalanced ==
    /\ (hclose_pc = "done" /\ Notifying = 0) => \A s \in Subjects : refs[s] = 0
    /\ \A s \in Subjects :
          (notifies = 1 /\ Notifying = 0 /\ processed[s] = 1 /\ w_pc = "wait")
              => refs[s] = 0

\* C4 witness: after notifications of both subjects, one replaced and one
\* processed, the thread has been closed and the counts are balanced.
C4_Witness ==
    /\ hclose_pc = "done"
    /\ Notifying = 0
    /\ notifies >= 2
    /\ \E s \in Subjects : processed[s] >= 1
    /\ \E s \in Subjects : replaced[s] >= 1
    /\ \A s \in Subjects : refs[s] = 0

\* C5: a subject in the pending slot, or taken from it by the worker,
\* already holds the reference of its notification, and no subject has had
\* more remove_ref than add_ref calls.
C5_RefBeforeStore ==
    \A s \in Subjects :
        /\ refs[s] >= 0
        /\ ((data_item = s /\ hclose_pc # "done") \/ w_data = s) => refs[s] >= 1

\* the places that hold subject s with a reference still to be released
Holders(s) ==
    (IF data_item = s /\ hclose_pc # "done" THEN 1 ELSE 0)
        + (IF w_data = s THEN 1 ELSE 0)

\* C6: every reference a notification acquires (or is about to acquire at
\* line 48) has exactly one holder that will release it: the pending slot
\* (released by the next handle_data or by close) or the worker (released by
\* release_data); none is held twice and none is held by nobody.
C6_ExactlyOneRelease ==
    \A s \in Subjects : refs[s] + adding[s] = Holders(s)

\* C6 witness: the worker holds one subject while the other is pending, each
\* with its one reference.
C6_Witness ==
    /\ w_data = "A"
    /\ data_item = "B"
    /\ Notifying = 0
    /\ refs["A"] = 1
    /\ refs["B"] = 1

\* C7: every subject stored by handle_data is either still pending, or was
\* replaced by a later handle_data without being processed, or was taken by
\* the worker and processed once; so of two notifications before a worker
\* pass only the later one is processed.
C7_Coalescing ==
    \A s \in Subjects :
        stores[s] = replaced[s] + processed[s]
                      + (IF data_item = s THEN 1 ELSE 0)
                      + (IF w_data = s /\ w_pc = "process" THEN 1 ELSE 0)

\* C7 witness: A then B were notified before the worker took anything; the
\* worker has processed B once and A never, and A's reference is released.
C7_Witness ==
    /\ notifies = 2
    /\ stores["A"] = 1
    /\ stores["B"] = 1
    /\ replaced["A"] = 1
    /\ processed["A"] = 0
    /\ processed["B"] = 1
    /\ panel_data_item = "B"
    /\ refs["A"] = 0
    /\ Notifying = 0

\* C8: the only step of close() that changes a reference count is its last,
\* taken when the worker loop has ended; it removes exactly one reference of
\* the subject in the slot, and none if the slot is empty.
C8_CloseReleasesOnce ==
    [][hclose_pc' # hclose_pc =>
          IF hclose_pc = "joined"
            THEN /\ w_pc = "ended"
                 /\ refs' = IF data_item # NoSubject
                              THEN remove_ref(refs, data_item) ELSE refs
            ELSE refs' = refs]_vars

\* C8 witness: close() has returned with a subject left in the slot, whose
\* reference it released.
C8_Witness ==
    /\ hclose_pc = "done"
    /\ data_item # NoSubject
    /\ Notifying = 0
    /\ refs[data_item] = 0

\* C9: the pass that took a subject releases it exactly once after
\* process_data, whether or not process_data raised, and the loop then waits
\* for its next pass.
C9_ReleaseAfterProcess ==
    [][(w_pc = "release" /\ w_pc' # "release") =>
          /\ w_pc' = "wait"
          /\ refs' = IF w_data # NoSubject THEN remove_ref(refs, w_data) ELSE refs
          /\ w_data' = NoSubject]_vars

\* C9 witness: process_data raised on a subject, the subject has been
\* released, and the loop waits for its next pass.
C9_Witness ==
    /\ w_raised
    /\ w_pc = "wait"
    /\ panel_data_item = "A"
    /\ processed["A"] = 1
    /\ refs["A"] = 0
    /\ adding["A"] = 0

\* staleness as the specification gives it: the shadow flag is dirty or
\* unset, or the item reports the slot dirty
ClaimedStale == cached_value_dirty \in {"dirty", "unset"} \/ item_dirty

\* C10: a get_data call on an open data item with one output goes on to the
\* scheduling block exactly when the shadow flag is dirty or unset or the
\* item reports the slot dirty.
C10_StaleIffDirtyOrUnset ==
    [][(calls' = calls + 1 /\ ~closed /\ num_outputs = 1) =>
          ((at_return' = at_return) <=> ClaimedStale)]_vars

\* ---------------------------------------------------------------------
\* DataItemProcessor: dirty signals, job outcomes and return values

\* get_data calls standing before the test-and-set block of lines 85-89
SchedTotal == at_schedule[TRUE] + at_schedule[FALSE]

\* the jobs between their store (lines 70-72) and their end
PastStore ==
    {j \in DOMAIN jobs : jobs[j].pc \in {"stored", "callback", "clearing", "finishing"}}

\* C11: once a computation has populated the cache and its job has ended
\* without raising, a get_data call on the dirtied cache of an open data item
\* goes on to the test-and-set block, where it schedules exactly one job if
\* none is in flight, and none if one is in flight.
C11_DirtyTriggersOne ==
    [][/\ (/\ calls' = calls + 1
           /\ cached_value # NoneVal /\ cached_value_dirty = "dirty"
           /\ ~closed /\ num_outputs = 1)
          => SchedTotal' = SchedTotal + 1
       /\ (SchedTotal' < SchedTotal /\ raised = "no")
          => IF InFlight = {}
               THEN /\ Len(jobs') = Len(jobs) + 1
                    /\ jobs'[Len(jobs')].pc = "queued"
                    /\ SubSeq(jobs', 1, Len(jobs)) = jobs
               ELSE jobs' = jobs]_vars

\* the first call's job has stored its value and ended, the cache was marked
\* dirty, the second call has scheduled the one new job, and the third call
\* has passed the test-and-set block without scheduling
C11_Witness ==
    /\ calls = 3 /\ SchedTotal = 0 /\ at_return = 1
    /\ stored /\ cached_value # NoneVal /\ cached_value_dirty = "dirty"
    /\ ~closed /\ raised = "no"
    /\ Len(jobs) = 1 /\ jobs[1].pc = "queued"

\* C12: while the cache holds the value of a job that has stored it and
\* ended, and no dirty signal has arrived since, the value get_data returns
\* does not change, and a get_data call that starts does not go on to
\* schedule a job.
C12_FreshUntilDirty ==
    [][(/\ cached_value # NoneVal /\ cached_value_dirty = "clean" /\ ~item_dirty
        /\ PastStore = {} /\ raised = "no")
       => \/ (cached_value_dirty' = "dirty" /\ item_dirty')
          \/ /\ GetDataValue' = GetDataValue
             /\ calls' = calls + 1 => SchedTotal' = SchedTotal
             /\ at_return' < at_return => result' = cached_value]_vars

\* C13: when a job stores its result after a dirty signal that arrived once
\* it had read its data, the cache is still dirty, so that the next get_data
\* call finds it stale.
C13_DirtySignalKept ==
    [][\A j \in DOMAIN jobs :
         (/\ j \in DOMAIN jobs'
          /\ jobs[j].pc = "calculated" /\ jobs[j].sig
          /\ jobs'[j].pc = "stored")
         => (cached_value_dirty' = "dirty" /\ IsStale')]_vars

\* C14: a job that found no data has not called get_calculated_data; after
\* its lines 75-79 the item's cache slot and the local cached value are
\* absent and get_data returns the default; after its line 83 the
\* in-progress flag is clear unless another job has been scheduled.
C14_NoneDataSettles ==
    \A j \in DOMAIN jobs :
        (jobs[j].data = NoneVal /\ j \in PastStore) =>
            /\ ~jobs[j].called
            /\ jobs[j].pc \in {"callback", "clearing"}
                 => /\ cached_value = NoneVal
                    /\ item_value = NoneVal
                    /\ GetDataValue = get_default_data
            /\ (jobs[j].pc = "finishing" /\ InFlight = {} /\ raised = "no")
                 => ~in_progress

\* a job that found no data has ended its work on a cache that held a value
\* before: the value is gone and the flag is clear
C14_Witness ==
    /\ stored /\ cached_value = NoneVal /\ item_value = NoneVal
    /\ ~in_progress /\ raised = "no"
    /\ \E j \in DOMAIN jobs :
         jobs[j].pc = "finishing" /\ jobs[j].data = NoneVal /\ ~jobs[j].called

\* C15: a get_data call that finds the cache stale and the data item closed
\* leaves the local cached value absent, so that the default is what it
\* returns.
C15_ClosedClearsCache ==
    [][(calls' = calls + 1 /\ IsStale /\ closed)
       => (cached_value' = NoneVal /\ GetDataValue' = get_default_data)]_vars

\* C16: in a job whose get_calculated_data returned None, lines 75-79 remove
\* the item's cached value, reset the local cached value to absent and the
\* local flag to unset, and leave the default as the value handed to the
\* completion callback, so that get_data returns the default; line 83
\* clears the in-progress flag.
C16_NoneResult ==
    [][\A j \in DOMAIN jobs :
         (j \in DOMAIN jobs' /\ jobs[j].called /\ jobs[j].calc = NoneVal) =>
            /\ (jobs[j].pc = "stored" /\ jobs'[j].pc = "callback")
                 => /\ item_value' = NoneVal
                    /\ cached_value' = NoneVal
                    /\ cached_value_dirty' = "unset"
                    /\ jobs'[j].calc = get_default_data
                    /\ GetDataValue' = get_default_data
            /\ (jobs[j].pc = "clearing" /\ jobs'[j].pc = "finishing")
                 => ~in_progress']_vars

\* a job whose get_calculated_data returned None has ended its work on a
\* cache that held a value before
C16_Witness ==
    /\ stored /\ cached_value = NoneVal /\ item_value = NoneVal
    /\ ~in_progress /\ raised = "no"
    /\ \E j \in DOMAIN jobs :
         /\ jobs[j].pc = "finishing" /\ jobs[j].called
         /\ jobs[j].data # NoneVal /\ jobs[j].calc = get_default_data

\* the completion callbacks held by a task that has yet to call them
PendingCallbacks ==
    Cardinality({j \in DOMAIN jobs :
                   /\ jobs[j].cb
                   /\ jobs[j].pc \in {"queued", "loaded", "calculated",
                                      "raising", "stored", "callback"}})

\* C17: the completion callback of a get_data call that found the cache
\* stale is, once the call has passed the test-and-set block, held by a
\* task that will call it, whether the call scheduled the task or found one
\* in flight.
C17_CallbackKept ==
    [][at_schedule'[TRUE] < at_schedule[TRUE]
       => PendingCallbacks' = PendingCallbacks + 1]_vars

\* C18: a get_data call standing at lines 90-93 can always return, returns
\* the local cached value if there is one and the default otherwise, and
\* leaves the jobs and the in-progress flag as they are.
C18_ReturnsAtOnce ==
    [][/\ at_return > 0 => ENABLED GetDataReturn
       /\ at_return' < at_return
            => /\ result' = IF cached_value # NoneVal THEN cached_value
                                                      ELSE get_default_data
               /\ jobs' = jobs
               /\ in_progress' = in_progress]_vars

\* both calls have returned, the second with the cached value of the first
\* call's job while the job it scheduled itself is still queued
C18_Witness ==
    /\ calls = 2 /\ SchedTotal = 0 /\ at_return = 0
    /\ result # NoneVal /\ result = cached_value
    /\ in_progress /\ Len(jobs) = 1 /\ jobs[1].pc = "queued"

\* C19: the steps of a job in which get_calculated_data raises leave the
\* cached value, the item's cache slot, both dirty flags and the value
\* get_data returns as they were.
C19_FailedJobKeepsCache ==
    [][\A j \in DOMAIN jobs :
         (\/ (/\ jobs[j].pc = "loaded"
              /\ j \in DOMAIN jobs' /\ jobs'[j].pc = "raising")
          \/ (jobs[j].pc = "raising" /\ jobs' = Ended(j)))
         => /\ cached_value' = cached_value
            /\ item_value' = item_value
            /\ item_dirty' = item_dirty
            /\ cached_value_dirty' = cached_value_dirty
            /\ GetDataValue' = GetDataValue]_vars

\* a job has failed on a dirtied cache that holds an earlier value, and the
\* calls have returned that value
C19_Witness ==
    /\ raised = "calc" /\ jobs = <<>>
    /\ stored /\ cached_value # NoneVal /\ cached_value_dirty = "dirty"
    /\ calls = 3 /\ ActiveCalls = 0 /\ result = cached_value

\* C20: when close() waits while every scheduled job has run to its end and
\* no get_data call is under way, the finish event is set, so that close()
\* can return.
C20_CloseCanReturn ==
    (close_pc = "waiting" /\ jobs = <<>> /\ ActiveCalls = 0) => finish_event

\* ---------------------------------------------------------------------
\* DataItemProcessor: locking, idempotence and scheduling decisions

\* C21: every step that writes the local cached value, the local dirty flag
\* or the in-progress flag is a step made inside "with self.__mutex".
C21_WritesUnderMutex ==
    [][(\/ cached_value' # cached_value
        \/ cached_value_dirty' # cached_value_dirty
        \/ in_progress' # in_progress)
       => UnderMutex]_vars

\* C23: set_cached_value_dirty leaves the local flag dirty and the item's
\* slot dirty and schedules nothing; called on a cache it has already
\* marked, it changes neither flag nor value.
C23_MarkDirtyIdempotent ==
    [][set_cached_value_dirty =>
         /\ cached_value_dirty' = "dirty" /\ item_dirty'
         /\ Len(jobs') = Len(jobs)
         /\ in_progress' = in_progress /\ finish_event' = finish_event
         /\ (cached_value_dirty = "dirty" /\ item_dirty)
              => /\ cached_value_dirty' = cached_value_dirty
                 /\ item_dirty' = item_dirty
                 /\ cached_value' = cached_value
                 /\ item_value' = item_value]_vars

\* the cache has been marked dirty while the only call's job was computing,
\* and no job but that one has been scheduled
C23_Witness ==
    /\ cached_value_dirty = "dirty" /\ item_dirty
    /\ calls = 1 /\ ActiveCalls = 0
    /\ Len(jobs) = 1 /\ jobs[1].sig /\ jobs[1].pc = "calculated"

\* C28: a job is scheduled only in a state in which the cache is stale.
C28_ScheduledOnlyIfStale ==
    [][Len(jobs') > Len(jobs) => IsStale]_vars

\* C29: the in-progress flag and the finish event are never both set, and
\* when no task is scheduled or running the flag is clear and the event set.
C29_EventIffIdle ==
    /\ in_progress => ~finish_event
    /\ jobs = <<>> => (~in_progress /\ finish_event)

\* C30: while a job is at its completion callback the in-progress flag is
\* set, and a get_data call that passes the test-and-set block meanwhile
\* schedules nothing.
C30_CallbackHoldsFlag ==
    [][\A j \in DOMAIN jobs :
         jobs[j].pc = "callback"
         => /\ in_progress
            /\ SchedTotal' < SchedTotal => jobs' = jobs]_vars

\* a job stands in its callback on a cache marked dirty meanwhile, the call
\* that scheduled it has returned, and a second get_data call stands before
\* the test-and-set block
C30_Witness ==
    /\ Len(jobs) = 1 /\ jobs[1].pc = "callback" /\ jobs[1].cb
    /\ in_progress /\ cached_value_dirty = "dirty" /\ ~closed /\ raised = "no"
    /\ calls = 2 /\ SchedTotal = 1 /\ at_return = 0

\* ---------------------------------------------------------------------
\* locks across the computation, None subjects, throttling, late notification

\* C22: while a job is about to run get_calculated_data the
\* DataItemProcessor's mutex is free and a get_data call standing before the
\* test-and-set block can go through it; while the worker loop is at
\* process_data the HistogramThread's mutex is free and handle_data can
\* store.
C22_NoLockAcrossCompute ==
    /\ (\E j \in DOMAIN jobs : jobs[j].pc = "loaded")
         => /\ mutex = "free"
            /\ \A fn \in BOOLEAN :
                 at_schedule[fn] > 0 => ENABLED GetDataSchedule(fn)
    /\ w_pc = "process"
         => /\ h_mutex = "free"
            /\ (/\ hclose_pc = "open"
                /\ notifies < MaxNotifies /\ Notifying < NumNotifiers)
                 => \A s \in Subjects : ENABLED HandleStore(s)

\* handle_data has stored B while the worker is at process_data with A
C22_Witness ==
    /\ w_pc = "process" /\ w_data = "A"
    /\ data_item = "B" /\ h_mutex = "free"

C25_NoneClearsDisplay ==
    [][(w_pc = "process" /\ w_data = NoSubject /\ w_pc' = "release" /\ ~w_raised')
       => (panel_data_item' = NoSubject /\ histogram_layer' = NoSubject)]_vars

\* C26: process_data is invoked only when at least 0.2 s (two ticks) have
\* passed since it was last invoked.
C26_Throttle ==
    [][(w_pc = "process" /\ w_pc' = "release") => since_process >= 2]_vars

\* the loop is at its third process_data, two ticks after the second
C26_Witness ==
    /\ w_pc = "process" /\ w_data = "B"
    /\ processed["A"] = 1 /\ processed["B"] = 1
    /\ since_process = 2

\* C27: handle_data is not called on a HistogramThread whose close() has
\* returned, and once the panel has dropped the thread no subject keeps a
\* reference that the thread acquired.
C27_NoNotifyAfterClose ==
    [][/\ notifies' > notifies => hclose_pc # "done"
       /\ (~panel_thread /\ Notifying = 0)
            => \A s \in Subjects : refs[s] = 0]_vars

\* C31: when HistogramThread.close() has returned the slot holds no subject
\* (the one it held was released), and a second close() leaves every
\* reference count as it found it.
C31_CloseIdempotent ==
    [][/\ (hclose_pc = "joined" /\ hclose_pc' = "done" => data_item' = NoSubject)
       /\ (hclose_pc = "done" /\ hclose_pc' = "again" => refs' = refs)]_vars

\* C32: when _set_data_item(X) has returned on the worker thread and X has
\* histogram data, the histogram layer shows X's histogram, whatever the
\* UI thread's redraws did meanwhile.
C32_LayerShowsItem ==
    (t_pc["worker"] = "idle" /\ d_sets > 0 /\ wk_arg # NoSubject)
        => d_layer = wk_arg

\* C33: _set_data_item, where it sets the display limits (line 259), leaves
\* them as they are while pressed is true and makes them (0, 1) otherwise.
C33_LimitsKeptWhilePressed ==
    [][(t_pc["worker"] = "limits" /\ t_pc'["worker"] = "hdirty")
          => d_limits' = IF pressed THEN d_limits ELSE FullLimits]_vars

\* C34: for a controller that is not closed, whenever no update task is
\* queued or running the changed flag is false and, if a signal was ever
\* received, the canvas item was updated after the last one; signals are
\* coalesced (never more updates than signals), and a run of the update
\* task that found the flag false updates nothing.
C34_SignalsCoalesced ==
    [][\A c \in Controllers :
          /\ (~n_closed'[c] /\ ~n_queued'[c] /\ n_running' # c)
                => (~n_changed'[c] /\ (n_signals'[c] > 0 => n_fresh'[c]))
          /\ n_updates'[c] <= n_signals'[c]
          /\ (n_running = c /\ n_pc = "update" /\ ~n_local /\ n_running' # c)
                => n_updates'[c] = n_updates[c]]_vars

\* C34 witness: the list controller received three signals, which were
\* coalesced into two runs of its task; one run found the flag set and
\* updated the canvas item, the other found it clear, and nothing is queued.
C34_Witness ==
    /\ n_signals["list"] = 3
    /\ n_runs["list"] = 2
    /\ n_updates["list"] = 1
    /\ ~n_queued["list"]
    /\ n_running = "none"
    /\ ~n_closed["list"]

\* C35: a call of set_data_browser_selection made while another call is
\* executing changes neither the stored selection nor the flag and fires
\* no event, and whenever no call is executing the flag is false, also
\* after a call that ended with an exception.
C35_ReentryGuarded ==
    [][/\ (b_nested' > b_nested
             => UNCHANGED <<b_blocked, b_data_group, b_data_item,
                            b_filter_id, b_fired>>)
       /\ (b_pc' = "idle" => ~b_blocked')]_vars

\* C35 witness: an outer call stored a new group, a listener called
\* set_data_browser_selection during it, the outer call then ended with
\* an exception, and the flag is false.
C35_Witness ==
    /\ b_pc = "idle"
    /\ b_raised
    /\ b_nested > 0
    /\ b_data_group = "G"
    /\ ~b_blocked

\* the outer call has passed line 620 or returned, without an exception
ReturnsNormally == b_pc \in {"finally", "idle"} /\ b_args # <<>> /\ ~b_raised

C37_MappingIsTree ==
    /\ g_mapping = TreeGroups
    /\ \A d \in ListenerDicts : g_listeners[d] = TreeGroups
====
